---- MODULE Spec2Model ----
(***************************************************************************)
(* Model of TwitchRecorder.py: the startup checks of TwitchRecorder,       *)
(* run(), and the poll / allocate / capture / sleep loop of loop().        *)
(*                                                                         *)
(* Strings are sequences of one-character strings, so that splitext,       *)
(* endswith, removesuffix and re.sub are modelled by what they do.         *)
(* Time is in seconds.  The clock `now` saturates at MaxTime: loop() never *)
(* reads the clock, so its control flow does not depend on it.             *)
(* The file system changes only through the capture subprocess.            *)
(***************************************************************************)
EXTENDS Integers, Sequences, FiniteSets, TLC

\* ---------------------------------------------------------------- bounds
MaxTime == 12
MaxCount == 2
MaxFiles == 3
MaxMajor == 3
MaxTitleLen == 3

\* ------------------------------------------------------ program constants
TokenMargin == 3600
BackoffSeconds == 30
MinRefresh == 5
DefaultRefresh == 5
MinMajor == 2

\* --------------------------------------------------------- input domains
username == <<"u">>
root_path == <<".", "/">>
RefreshValues == {2, 7}
ExpiresInValues == {3610}
CaptureDurations == {0, 10}
Titles == { <<"a">>, <<"a", " ", "(", "1", ")">>, <<"a", "/">> }
StartedAts == {1}
Sessions == [title : Titles, started_at : StartedAts]
DataLists == {<<>>} \cup {<<s>> : s \in Sessions}
               \cup {<<s, t>> : s \in Sessions, t \in {[title |-> <<"a">>, started_at |-> 1]}}
StatusCodes == {200, 500}
Qualities == {"best", "720p"}

\* no capture command issued yet
NoInvocation == [username |-> <<>>, quality |-> ""]
NoStream == [title |-> <<>>, started_at |-> 0]

\* no response held: resp is a local of check_streaming
NoResponse == [kind |-> "none", status |-> 0, data |-> <<>>]

\* no token request made yet
NoTokenResponse == [kind |-> "none", status |-> 0, expires_in |-> 0]

\* str.title() of the token type
Title(t) == IF t = "bearer" THEN "Bearer" ELSE t

\* the header value built from a token response
NewToken == <<Title("bearer"), "t1">>

\* ------------------------------------------------------- string helpers
Min(a, b) == IF a < b THEN a ELSE b

RECURSIVE ToStr(_)
ToStr(n) ==
  LET d == <<"0", "1", "2", "3", "4", "5", "6", "7", "8", "9">>
  IN IF n < 10 THEN <<d[n + 1]>> ELSE ToStr(n \div 10) \o <<d[(n % 10) + 1]>>

EndsWith(s, suf) ==
  /\ Len(suf) <= Len(s)
  /\ SubSeq(s, Len(s) - Len(suf) + 1, Len(s)) = suf

RemoveSuffix(s, suf) ==
  IF Len(suf) > 0 /\ EndsWith(s, suf) THEN SubSeq(s, 1, Len(s) - Len(suf)) ELSE s

LastIndexOf(s, c) ==
  LET I == {i \in 1..Len(s) : s[i] = c}
  IN IF I = {} THEN 0 ELSE CHOOSE i \in I : \A j \in I : j <= i

\* os.path.splitext: the extension starts at the last dot of the last path
\* component, unless only dots precede it in that component.
Splitext(p) ==
  LET sep == LastIndexOf(p, "/")
      dot == LastIndexOf(p, ".")
  IN IF dot > sep /\ (\E k \in (sep + 1)..(dot - 1) : p[k] # ".")
       THEN <<SubSeq(p, 1, dot - 1), SubSeq(p, dot, Len(p))>>
       ELSE <<p, <<>> >>

\* os.path.join of two components
Join(a, b) ==
  IF Len(b) > 0 /\ b[1] = "/" THEN b
  ELSE IF a = <<>> \/ a[Len(a)] = "/" THEN a \o b
  ELSE a \o <<"/">> \o b

ForbiddenChars == {"/", "\\", "?", "%", "*", ":", "|", "\"", "<", ">", ".", "\n"}

\* the backslash is missing from the character class
escape_filename_NoBackslash(s) == SelectSeq(s, LAMBDA c : c \notin ForbiddenChars \ {"\\"})

escape_filename(s) == SelectSeq(s, LAMBDA c : c \notin ForbiddenChars)

\* the " (n)" marker
Suffix(n) == <<" ", "(">> \o ToStr(n) \o <<")">>

file_dir == Join(root_path, username)

\* strftime of the start instant: digits only
StreamStarted(started_at) == ToStr(started_at)

\* FILE_NAME_FORMAT.format(...)
FileName(sd) ==
  <<"[">> \o username \o <<"]">> \o StreamStarted(sd.started_at) \o <<"_">>
    \o escape_filename(sd.title) \o <<".", "t", "s">>

\* one pass of the body of the disambiguation loop, with uq_num already
\* incremented to n
\* the previous marker is not stripped
Disambiguate_Accumulate(path, n) ==
  LET sp == Splitext(path)
  IN sp[1] \o Suffix(n) \o sp[2]

Disambiguate(path, n) ==
  LET sp == Splitext(path)
      prev == Suffix(n - 1)
      stem == IF n > 1 /\ EndsWith(sp[1], prev) THEN RemoveSuffix(sp[1], prev) ELSE sp[1]
  IN stem \o Suffix(n) \o sp[2]

\* os.path.isdir in place of os.path.exists: never true for a recording
PathExists_IsDir(p, fs) == FALSE

PathExists(p, fs) == p \in fs

InitialFiles ==
  LET a == Join(file_dir, FileName([title |-> <<"a">>, started_at |-> 1]))
      a1 == Disambiguate(a, 1)
      a2 == Disambiguate(a1, 2)
  IN {a, a1, a2}

\* ---------------------------------------------------------------- state
VARIABLES pc, exit_code, oauth_token, oauth_token_expires, refresh, now,
          files, probe, stream_data, file_path, uq_num, active, handed, ret,
          startup, configured, liveCount, captureCount, delay, lastAcquire,
          handedBefore, written, checks,
          token_resp,
          escaped_title,
          last_resp,
          config, invoked

vars == <<pc, exit_code, oauth_token, oauth_token_expires, refresh, now,
          files, probe, stream_data, file_path, uq_num, active, handed, ret,
          startup, configured, liveCount, captureCount, delay, lastAcquire,
          handedBefore, written, checks,
          token_resp,
          escaped_title,
          last_resp,
          config, invoked>>

\* os.path.join(self.file_dir, file_name)
BasePath(sd) == Join(config.file_dir, FileName(sd))

Init ==
  /\ config \in [username : {username}, quality : Qualities, file_dir : {file_dir}]
  /\ pc = "check_streamlink"
  /\ exit_code = -1
  /\ oauth_token = <<>>
  /\ oauth_token_expires = 0
  /\ refresh = DefaultRefresh
  /\ now = 0
  /\ files \in SUBSET InitialFiles
  /\ probe = "none"
  /\ stream_data = NoStream
  /\ file_path = <<>>
  /\ uq_num = 0
  /\ active = 0
  /\ handed = <<>>
  /\ ret = 0
  /\ startup = [c \in {"streamlink", "token", "user"} |-> "pending"]
  /\ configured = <<>>
  /\ liveCount = 0
  /\ captureCount = 0
  /\ delay = 0
  /\ lastAcquire = -1
  /\ handedBefore = {}
  /\ written = {}
  /\ checks = 0
  /\ token_resp = NoTokenResponse
  /\ escaped_title = <<>>
  /\ last_resp = NoResponse
  /\ invoked = NoInvocation

\* ------------------------------------------------------ startup checks
StreamlinkOutputs ==
  [kind : {"notfound", "nomatch", "nonzero"}, major : {0}]
    \cup [kind : {"version"}, major : 0..MaxMajor]

\* check_streamlink: True only for a parsed version whose major is >= 2
check_streamlink(out) == out.kind = "version" /\ out.major >= MinMajor

\* a transport failure, a complete response with a status, or a 200 response
\* whose body lacks expires_in
TokenResponses ==
  [kind : {"transport", "no_expires_in"}, status : {0}, expires_in : {0}]
    \cup [kind : {"response"}, status : StatusCodes, expires_in : ExpiresInValues]


\* get_oauth_token: the return value, and the credential it leaves behind
get_oauth_token_ok(r) == r.kind = "response" /\ r.status = 200

\* the KeyError of line 88 comes after the assignment of line 87
get_oauth_token_raises(r) == r.kind = "no_expires_in"

\* the token is cleared when the acquisition fails
get_oauth_token_token_Clear(r, old) ==
  IF get_oauth_token_ok(r) \/ get_oauth_token_raises(r) THEN NewToken ELSE <<>>

get_oauth_token_token(r, old) ==
  IF get_oauth_token_ok(r) \/ get_oauth_token_raises(r) THEN NewToken ELSE old

get_oauth_token_expires(r, old, t) ==
  IF get_oauth_token_ok(r) THEN t + r.expires_in ELSE old

UserResponses ==
  [kind : {"transport"}, status : {0}, found : {FALSE}]
    \cup [kind : {"response"}, status : StatusCodes, found : BOOLEAN]

check_user_exist(r) == r.kind = "response" /\ r.status = 200 /\ r.found

Exit(code) ==
  /\ pc' = "exited"
  /\ exit_code' = code

\* __init__, first check: an uncaught CalledProcessError also ends the
\* interpreter with status 1
CheckStreamlink ==
  /\ pc = "check_streamlink"
  /\ \E out \in StreamlinkOutputs :
       IF out.kind # "nonzero" /\ check_streamlink(out)
         THEN /\ pc' = "get_token"
              /\ startup' = [startup EXCEPT !["streamlink"] = "ok"]
              /\ UNCHANGED exit_code
         ELSE /\ Exit(1)
              /\ startup' = [startup EXCEPT !["streamlink"] = "failed"]
  /\ UNCHANGED <<oauth_token, oauth_token_expires, refresh, now, files, probe,
                 stream_data, file_path, uq_num, active, handed, ret,
                 configured, liveCount, captureCount, delay, lastAcquire>>
  /\ UNCHANGED <<handedBefore, written, checks>>
  /\ UNCHANGED <<token_resp>>
  /\ UNCHANGED <<escaped_title>>
  /\ UNCHANGED <<last_resp>>
  /\ UNCHANGED <<config, invoked>>

\* the return value of get_oauth_token is not looked at
InitToken_Continue ==
  /\ pc = "get_token"
  /\ \E r \in TokenResponses :
       /\ token_resp' = r
       /\ oauth_token' = get_oauth_token_token(r, oauth_token)
       /\ oauth_token_expires' = get_oauth_token_expires(r, oauth_token_expires, now)
       /\ lastAcquire' = now
       /\ pc' = "check_user"
       /\ startup' = [startup EXCEPT !["token"] =
                        IF get_oauth_token_ok(r) THEN "ok" ELSE "failed"]
       /\ UNCHANGED exit_code
  /\ UNCHANGED <<refresh, now, files, probe, stream_data, file_path, uq_num,
                 active, handed, ret, configured, liveCount, captureCount, delay>>
  /\ UNCHANGED <<handedBefore, written, checks>>
  /\ UNCHANGED <<escaped_title>>
  /\ UNCHANGED <<last_resp>>
  /\ UNCHANGED <<config, invoked>>

\* __init__, second check: an uncaught KeyError ends the interpreter with
\* status 1 as well
InitToken ==
  /\ pc = "get_token"
  /\ \E r \in TokenResponses :
       /\ token_resp' = r
       /\ oauth_token' = get_oauth_token_token(r, oauth_token)
       /\ oauth_token_expires' = get_oauth_token_expires(r, oauth_token_expires, now)
       /\ lastAcquire' = now
       /\ IF get_oauth_token_ok(r)
            THEN /\ pc' = "check_user"
                 /\ startup' = [startup EXCEPT !["token"] = "ok"]
                 /\ UNCHANGED exit_code
            ELSE /\ Exit(1)
                 /\ startup' = [startup EXCEPT !["token"] = "failed"]
  /\ UNCHANGED <<refresh, now, files, probe, stream_data, file_path, uq_num,
                 active, handed, ret, configured, liveCount, captureCount, delay>>
  /\ UNCHANGED <<handedBefore, written, checks>>
  /\ UNCHANGED <<escaped_title>>
  /\ UNCHANGED <<last_resp>>
  /\ UNCHANGED <<config, invoked>>

\* check_oauth_token, called with a credential in place
CheckOauthToken ==
  /\ pc = "check_token"
  /\ IF now + TokenMargin > oauth_token_expires
       THEN \E r \in TokenResponses :
              /\ token_resp' = r
              /\ oauth_token' = get_oauth_token_token(r, oauth_token)
              /\ oauth_token_expires' = get_oauth_token_expires(r, oauth_token_expires, now)
              /\ lastAcquire' = now
              /\ pc' = IF get_oauth_token_raises(r) THEN "token_raised" ELSE "token_checked"
       ELSE /\ pc' = "token_checked"
            /\ UNCHANGED <<token_resp, oauth_token, oauth_token_expires, lastAcquire>>
  /\ UNCHANGED <<exit_code, refresh, now, files, probe, stream_data, file_path,
                 uq_num, active, handed, ret, startup, configured, liveCount,
                 captureCount, delay>>
  /\ UNCHANGED <<handedBefore, written, checks>>
  /\ UNCHANGED <<escaped_title>>
  /\ UNCHANGED <<last_resp>>
  /\ UNCHANGED <<config, invoked>>

\* the lookup result is ignored
CheckUserExist_Continue ==
  /\ pc = "check_user"
  /\ \E r \in UserResponses :
       /\ pc' = "constructed"
       /\ startup' = [startup EXCEPT !["user"] = IF check_user_exist(r) THEN "ok" ELSE "failed"]
       /\ UNCHANGED exit_code
  /\ UNCHANGED <<oauth_token, oauth_token_expires, refresh, now, files, probe,
                 stream_data, file_path, uq_num, active, handed, ret,
                 configured, liveCount, captureCount, delay, lastAcquire>>
  /\ UNCHANGED <<handedBefore, written, checks>>
  /\ UNCHANGED <<token_resp>>
  /\ UNCHANGED <<escaped_title>>
  /\ UNCHANGED <<last_resp>>
  /\ UNCHANGED <<config, invoked>>

CheckUserExist ==
  /\ pc = "check_user"
  /\ \E r \in UserResponses :
       IF check_user_exist(r)
         THEN /\ pc' = "constructed"
              /\ startup' = [startup EXCEPT !["user"] = "ok"]
              /\ UNCHANGED exit_code
         ELSE /\ Exit(1)
              /\ startup' = [startup EXCEPT !["user"] = "failed"]
  /\ UNCHANGED <<oauth_token, oauth_token_expires, refresh, now, files, probe,
                 stream_data, file_path, uq_num, active, handed, ret,
                 configured, liveCount, captureCount, delay, lastAcquire>>
  /\ UNCHANGED <<handedBefore, written, checks>>
  /\ UNCHANGED <<token_resp>>
  /\ UNCHANGED <<escaped_title>>
  /\ UNCHANGED <<last_resp>>
  /\ UNCHANGED <<config, invoked>>

\* a client of the class assigns recorder.refresh between construction and run()
SetRefresh ==
  /\ pc = "constructed"
  /\ configured = <<>>
  /\ \E v \in RefreshValues :
       /\ refresh' = v
       /\ configured' = <<v>>
  /\ UNCHANGED <<pc, exit_code, oauth_token, oauth_token_expires, now, files,
                 probe, stream_data, file_path, uq_num, active, handed, ret,
                 startup, liveCount, captureCount, delay, lastAcquire>>
  /\ UNCHANGED <<handedBefore, written, checks>>
  /\ UNCHANGED <<token_resp>>
  /\ UNCHANGED <<escaped_title>>
  /\ UNCHANGED <<last_resp>>
  /\ UNCHANGED <<config, invoked>>

\* comparison reversed
ClampRefresh_Reversed(r) == IF r > MinRefresh THEN MinRefresh ELSE r

ClampRefresh(r) == IF r < MinRefresh THEN MinRefresh ELSE r

\* run(): clamp the interval, make the directory, enter loop()
Run ==
  /\ pc = "constructed"
  /\ refresh' = ClampRefresh(refresh)
  /\ pc' = "loop"
  /\ UNCHANGED <<exit_code, oauth_token, oauth_token_expires, now, files,
                 probe, stream_data, file_path, uq_num, active, handed, ret,
                 startup, configured, liveCount, captureCount, delay, lastAcquire>>
  /\ UNCHANGED <<handedBefore, written, checks>>
  /\ UNCHANGED <<token_resp>>
  /\ UNCHANGED <<escaped_title>>
  /\ UNCHANGED <<last_resp>>
  /\ UNCHANGED <<config, invoked>>

\* ------------------------------------------------------------- loop()
StreamResponses ==
  [kind : {"transport"}, status : {0}, data : {<<>>}]
    \cup [kind : {"response"}, status : StatusCodes, data : DataLists]

\* the status code is not looked at
check_streaming_NoStatus(r) ==
  IF r.kind = "transport" THEN NoStream
  ELSE IF r.data = <<>> THEN NoStream
  ELSE r.data[1]

\* the last entry of the list is taken
check_streaming_Last(r) ==
  IF r.kind = "transport" THEN NoStream
  ELSE IF r.status # 200 THEN NoStream
  ELSE IF r.data = <<>> THEN NoStream
  ELSE r.data[Len(r.data)]

\* check_streaming: the session, or NoStream for None
check_streaming(r) ==
  IF r.kind = "transport" THEN NoStream
  ELSE IF r.status # 200 THEN NoStream
  ELSE IF r.data = <<>> THEN NoStream
  ELSE r.data[1]

Classify(r) ==
  IF r.kind = "transport" THEN "transport"
  ELSE IF r.status # 200 THEN "http_error"
  ELSE IF r.data = <<>> THEN "empty"
  ELSE "live"

Advance(t, d) == Min(t + d, MaxTime)

CheckStreaming ==
  /\ pc = "loop"
  /\ \E r \in StreamResponses :
       /\ last_resp' = r
       /\ probe' = Classify(r)
       /\ stream_data' = check_streaming(r)
       /\ IF check_streaming(r) = NoStream
            THEN /\ pc' = "offline"
                 /\ UNCHANGED liveCount
            ELSE /\ pc' = "online"
                 /\ liveCount' = Min(liveCount + 1, MaxCount)
  /\ delay' = 0
  /\ UNCHANGED <<exit_code, oauth_token, oauth_token_expires, refresh, now,
                 files, file_path, uq_num, active, handed, ret, startup,
                 configured, captureCount, lastAcquire>>
  /\ UNCHANGED <<handedBefore, written, checks>>
  /\ UNCHANGED <<token_resp>>
  /\ UNCHANGED <<escaped_title>>
  /\ UNCHANGED <<config, invoked>>

SleepOffline ==
  /\ pc = "offline"
  /\ now' = Advance(now, refresh)
  /\ delay' = delay + refresh
  /\ pc' = "loop"
  /\ UNCHANGED <<exit_code, oauth_token, oauth_token_expires, refresh, files,
                 probe, stream_data, file_path, uq_num, active, handed, ret,
                 startup, configured, liveCount, captureCount, lastAcquire>>
  /\ UNCHANGED <<handedBefore, written, checks>>
  /\ UNCHANGED <<token_resp>>
  /\ UNCHANGED <<escaped_title>>
  /\ last_resp' = NoResponse
  /\ UNCHANGED <<config, invoked>>

DeriveFileName ==
  /\ pc = "online"
  /\ file_path' = BasePath(stream_data)
  /\ uq_num' = 0
  /\ pc' = "alloc"
  /\ UNCHANGED <<exit_code, oauth_token, oauth_token_expires, refresh, now,
                 files, probe, stream_data, active, handed, ret, startup,
                 configured, liveCount, captureCount, delay, lastAcquire>>
  /\ checks' = 0
  /\ UNCHANGED <<handedBefore, written>>
  /\ UNCHANGED <<token_resp>>
  /\ escaped_title' = escape_filename(stream_data.title)
  /\ last_resp' = NoResponse
  /\ UNCHANGED <<config, invoked>>

\* the counter is not incremented on the first collision: the base path is
\* tried a second time under the marker of the path just tried
ExistsCheck_Recheck ==
  /\ pc = "alloc"
  /\ IF PathExists(file_path, files)
       THEN IF checks = uq_num
              THEN UNCHANGED <<uq_num, file_path, pc>>
              ELSE /\ uq_num' = uq_num + 1
                   /\ file_path' = Disambiguate(file_path, uq_num + 1)
                   /\ UNCHANGED pc
       ELSE /\ pc' = "start"
            /\ UNCHANGED <<uq_num, file_path>>
  /\ UNCHANGED <<exit_code, oauth_token, oauth_token_expires, refresh, now,
                 files, probe, stream_data, active, handed, ret, startup,
                 configured, liveCount, captureCount, delay, lastAcquire>>
  /\ checks' = checks + 1
  /\ UNCHANGED <<handedBefore, written>>
  /\ UNCHANGED <<token_resp, escaped_title>>
  /\ UNCHANGED <<last_resp>>
  /\ UNCHANGED <<config, invoked>>

\* the existence loop is left out
ExistsCheck_Skip ==
  /\ pc = "alloc"
  /\ pc' = "start"
  /\ UNCHANGED <<uq_num, file_path>>
  /\ UNCHANGED <<exit_code, oauth_token, oauth_token_expires, refresh, now,
                 files, probe, stream_data, active, handed, ret, startup,
                 configured, liveCount, captureCount, delay, lastAcquire>>
  /\ checks' = checks + 1
  /\ UNCHANGED <<handedBefore, written>>
  /\ UNCHANGED <<token_resp, escaped_title>>
  /\ UNCHANGED <<last_resp>>
  /\ UNCHANGED <<config, invoked>>

\* `if` in place of `while`: the renamed path is not checked again
ExistsCheck_Once ==
  /\ pc = "alloc"
  /\ IF PathExists(file_path, files)
       THEN /\ uq_num' = uq_num + 1
            /\ file_path' = Disambiguate(file_path, uq_num + 1)
       ELSE UNCHANGED <<uq_num, file_path>>
  /\ pc' = "start"
  /\ UNCHANGED <<exit_code, oauth_token, oauth_token_expires, refresh, now,
                 files, probe, stream_data, active, handed, ret, startup,
                 configured, liveCount, captureCount, delay, lastAcquire>>
  /\ checks' = checks + 1
  /\ UNCHANGED <<handedBefore, written>>
  /\ UNCHANGED <<token_resp>>
  /\ UNCHANGED <<escaped_title>>
  /\ UNCHANGED <<last_resp>>
  /\ UNCHANGED <<config, invoked>>

\* one evaluation of the while condition, and the loop body when it holds
ExistsCheck ==
  /\ pc = "alloc"
  /\ IF PathExists(file_path, files)
       THEN /\ uq_num' = uq_num + 1
            /\ file_path' = Disambiguate(file_path, uq_num + 1)
            /\ UNCHANGED pc
       ELSE /\ pc' = "start"
            /\ UNCHANGED <<uq_num, file_path>>
  /\ UNCHANGED <<exit_code, oauth_token, oauth_token_expires, refresh, now,
                 files, probe, stream_data, active, handed, ret, startup,
                 configured, liveCount, captureCount, delay, lastAcquire>>
  /\ checks' = checks + 1
  /\ UNCHANGED <<handedBefore, written>>
  /\ UNCHANGED <<token_resp>>
  /\ UNCHANGED <<escaped_title>>
  /\ UNCHANGED <<last_resp>>
  /\ UNCHANGED <<config, invoked>>

\* the child is started and not waited for
StartCapture_NoWait ==
  /\ pc = "start"
  /\ handed' = file_path
  /\ active' = active + 1
  /\ captureCount' = Min(captureCount + 1, MaxCount)
  /\ ret' = 0
  /\ pc' = "done"
  /\ UNCHANGED <<exit_code, oauth_token, oauth_token_expires, refresh, now,
                 files, probe, stream_data, file_path, uq_num, startup,
                 configured, liveCount, delay, lastAcquire>>
  /\ UNCHANGED <<handedBefore, written, checks>>
  /\ UNCHANGED <<token_resp>>
  /\ UNCHANGED <<escaped_title>>
  /\ UNCHANGED <<last_resp>>
  /\ invoked' = [username |-> config.username, quality |-> config.quality]
  /\ UNCHANGED <<config>>

\* the quality argument is the default instead of the configured one
StartCapture_BestQuality ==
  /\ pc = "start"
  /\ handed' = file_path
  /\ active' = active + 1
  /\ captureCount' = Min(captureCount + 1, MaxCount)
  /\ pc' = "recording"
  /\ invoked' = [username |-> config.username, quality |-> "best"]
  /\ UNCHANGED <<exit_code, oauth_token, oauth_token_expires, refresh, now,
                 files, probe, stream_data, file_path, uq_num, ret, startup,
                 configured, liveCount, delay, lastAcquire, handedBefore,
                 written, checks, token_resp, escaped_title, last_resp, config>>

\* subprocess.call: the child is started, the controller blocks on it
StartCapture ==
  /\ pc = "start"
  /\ handed' = file_path
  /\ active' = active + 1
  /\ captureCount' = Min(captureCount + 1, MaxCount)
  /\ pc' = "recording"
  /\ UNCHANGED <<exit_code, oauth_token, oauth_token_expires, refresh, now,
                 files, probe, stream_data, file_path, uq_num, ret, startup,
                 configured, liveCount, delay, lastAcquire>>
  /\ UNCHANGED <<handedBefore, written, checks>>
  /\ UNCHANGED <<token_resp>>
  /\ UNCHANGED <<escaped_title>>
  /\ UNCHANGED <<last_resp>>
  /\ invoked' = [username |-> config.username, quality |-> config.quality]
  /\ UNCHANGED <<config>>

\* the child exits; it may or may not have written its output file
CaptureExit ==
  /\ pc = "recording"
  /\ active > 0
  /\ \E code \in {0, 1}, created \in BOOLEAN, d \in CaptureDurations :
       /\ ret' = code
       /\ files' = IF created /\ Cardinality(files) < MaxFiles
                     THEN files \cup {handed} ELSE files
       /\ now' = Advance(now, d)
       /\ pc' = IF code # 0 THEN "backoff" ELSE "done"
  /\ active' = active - 1
  /\ delay' = 0
  /\ UNCHANGED <<exit_code, oauth_token, oauth_token_expires, refresh, probe,
                 stream_data, file_path, uq_num, handed, startup, configured,
                 liveCount, captureCount, lastAcquire>>
  /\ handedBefore' = handedBefore \cup {handed}
  /\ written' = written \cup (files' \ files)
  /\ UNCHANGED <<checks>>
  /\ UNCHANGED <<token_resp>>
  /\ UNCHANGED <<escaped_title>>
  /\ UNCHANGED <<last_resp>>
  /\ UNCHANGED <<config, invoked>>

\* after the backoff the capture is started again without a new probe
Backoff_Retry ==
  /\ pc = "backoff"
  /\ now' = Advance(now, BackoffSeconds)
  /\ delay' = delay + BackoffSeconds
  /\ pc' = "start"
  /\ UNCHANGED <<exit_code, oauth_token, oauth_token_expires, refresh, files,
                 probe, stream_data, file_path, uq_num, active, handed, ret,
                 startup, configured, liveCount, captureCount, lastAcquire>>
  /\ UNCHANGED <<handedBefore, written, checks>>
  /\ UNCHANGED <<token_resp>>
  /\ UNCHANGED <<escaped_title>>
  /\ UNCHANGED <<last_resp>>
  /\ UNCHANGED <<config, invoked>>

\* the backoff sleeps the refresh interval instead of 30 seconds
Backoff_Short ==
  /\ pc = "backoff"
  /\ now' = Advance(now, refresh)
  /\ delay' = delay + refresh
  /\ pc' = "done"
  /\ UNCHANGED <<exit_code, oauth_token, oauth_token_expires, refresh, files,
                 probe, stream_data, file_path, uq_num, active, handed, ret,
                 startup, configured, liveCount, captureCount, lastAcquire>>
  /\ UNCHANGED <<handedBefore, written, checks>>
  /\ UNCHANGED <<token_resp>>
  /\ UNCHANGED <<escaped_title>>
  /\ UNCHANGED <<last_resp>>
  /\ UNCHANGED <<config, invoked>>

\* a failed capture ends the process
Backoff_Exit ==
  /\ pc = "backoff"
  /\ Exit(1)
  /\ UNCHANGED <<oauth_token, oauth_token_expires, refresh, now, files,
                 probe, stream_data, file_path, uq_num, active, handed, ret,
                 startup, configured, liveCount, captureCount, delay, lastAcquire>>
  /\ UNCHANGED <<handedBefore, written, checks>>
  /\ UNCHANGED <<token_resp>>
  /\ UNCHANGED <<escaped_title>>
  /\ UNCHANGED <<last_resp>>
  /\ UNCHANGED <<config, invoked>>

Backoff ==
  /\ pc = "backoff"
  /\ now' = Advance(now, BackoffSeconds)
  /\ delay' = delay + BackoffSeconds
  /\ pc' = "done"
  /\ UNCHANGED <<exit_code, oauth_token, oauth_token_expires, refresh, files,
                 probe, stream_data, file_path, uq_num, active, handed, ret,
                 startup, configured, liveCount, captureCount, lastAcquire>>
  /\ UNCHANGED <<handedBefore, written, checks>>
  /\ UNCHANGED <<token_resp>>
  /\ UNCHANGED <<escaped_title>>
  /\ UNCHANGED <<last_resp>>
  /\ UNCHANGED <<config, invoked>>

SleepRefresh ==
  /\ pc = "done"
  /\ now' = Advance(now, refresh)
  /\ delay' = delay + refresh
  /\ pc' = "loop"
  /\ UNCHANGED <<exit_code, oauth_token, oauth_token_expires, refresh, files,
                 probe, stream_data, file_path, uq_num, active, handed, ret,
                 startup, configured, liveCount, captureCount, lastAcquire>>
  /\ UNCHANGED <<handedBefore, written, checks>>
  /\ UNCHANGED <<token_resp>>
  /\ UNCHANGED <<escaped_title>>
  /\ UNCHANGED <<last_resp>>
  /\ UNCHANGED <<config, invoked>>

Next ==
  \/ CheckStreamlink
  \/ InitToken
  \/ CheckUserExist
  \/ SetRefresh
  \/ Run
  \/ CheckStreaming
  \/ SleepOffline
  \/ DeriveFileName
  \/ ExistsCheck
  \/ StartCapture
  \/ CaptureExit
  \/ Backoff
  \/ SleepRefresh

Spec == Init /\ [][Next]_vars

\* check_oauth_token on its own: a credential acquired earlier, at a later time
TokenNows == {0, 10, 20, 4000}

TokenInit ==
  /\ config \in [username : {username}, quality : Qualities, file_dir : {file_dir}]
  /\ pc = "check_token"
  /\ exit_code = -1
  /\ oauth_token = <<Title("bearer"), "t0">>
  /\ oauth_token_expires \in ExpiresInValues
  /\ refresh = DefaultRefresh
  /\ now \in TokenNows
  /\ files \in SUBSET InitialFiles
  /\ probe = "none"
  /\ stream_data = NoStream
  /\ file_path = <<>>
  /\ uq_num = 0
  /\ active = 0
  /\ handed = <<>>
  /\ ret = 0
  /\ startup = [c \in {"streamlink", "token", "user"} |-> "ok"]
  /\ configured = <<>>
  /\ liveCount = 0
  /\ captureCount = 0
  /\ delay = 0
  /\ lastAcquire = 0
  /\ handedBefore = {}
  /\ written = {}
  /\ checks = 0
  /\ token_resp = NoTokenResponse
  /\ escaped_title = <<>>
  /\ last_resp = NoResponse
  /\ invoked = NoInvocation

TokenNext == CheckOauthToken

TokenSpec == TokenInit /\ [][TokenNext]_vars

\* escape_filename on its own: a first Live probe result with any title
TitleAlphabet == ForbiddenChars \cup {"a", " ", "("}

AllTitles == UNION {[1..n -> TitleAlphabet] : n \in 0..MaxTitleLen}

SanitizeInit ==
  /\ config \in [username : {username}, quality : Qualities, file_dir : {file_dir}]
  /\ pc = "online"
  /\ exit_code = -1
  /\ oauth_token = NewToken
  /\ oauth_token_expires \in ExpiresInValues
  /\ refresh = DefaultRefresh
  /\ now = 0
  /\ files = {}
  /\ probe = "live"
  /\ stream_data \in [title : AllTitles, started_at : StartedAts]
  /\ file_path = <<>>
  /\ uq_num = 0
  /\ active = 0
  /\ handed = <<>>
  /\ ret = 0
  /\ startup = [c \in {"streamlink", "token", "user"} |-> "ok"]
  /\ configured = <<>>
  /\ liveCount = 1
  /\ captureCount = 0
  /\ delay = 0
  /\ lastAcquire = 0
  /\ handedBefore = {}
  /\ written = {}
  /\ checks = 0
  /\ token_resp = [kind |-> "response", status |-> 200, expires_in |-> oauth_token_expires]
  /\ escaped_title = <<>>
  /\ last_resp = [kind |-> "response", status |-> 200, data |-> <<stream_data>>]
  /\ invoked = NoInvocation

SanitizeNext == DeriveFileName

SanitizeSpec == SanitizeInit /\ [][SanitizeNext]_vars

\* every sleep returns, every capture exits, the interpreter keeps running
LiveSpec == Init /\ [][Next]_vars /\ WF_vars(Next)

TypeOK ==
  /\ pc \in {"check_streamlink", "get_token", "check_user", "constructed", "loop",
             "offline", "online", "alloc", "start", "recording", "backoff",
             "done", "exited"}
  /\ exit_code \in {-1, 1}
  /\ now \in 0..MaxTime
  /\ active \in 0..1
  /\ liveCount \in 0..MaxCount
  /\ captureCount \in 0..MaxCount

\* ---------------------------------------------------------------- claims
LoopPcs == {"loop", "offline", "online", "alloc", "start", "recording", "backoff", "done"}
PendingPcs == {"online", "alloc", "start"}
Checks == {"streamlink", "token", "user"}

TokenStale == now + TokenMargin > oauth_token_expires

\* C1: every status probe sent by loop() while now + 3600 > expiry is preceded
\* by a get_oauth_token call made after the margin of the stored expiry was
\* violated; a probe sent with a fresh token leaves token and expiry unchanged.
C1_FreshBeforeProbe ==
  [][(pc = "loop" /\ pc' # "loop") =>
       IF TokenStale
         THEN lastAcquire + TokenMargin > oauth_token_expires
         ELSE oauth_token' = oauth_token /\ oauth_token_expires' = oauth_token_expires]_vars

\* C2: between two probes every Live result is followed by exactly one capture
\* invocation, so at each probe the captures started equal the Live results
\* seen (both counted up to MaxCount).
C2_LiveAlwaysRecords ==
  /\ captureCount <= liveCount
  /\ IF pc \in PendingPcs
       THEN \/ captureCount = liveCount - 1
            \/ liveCount = MaxCount /\ captureCount = MaxCount
       ELSE captureCount = liveCount

C2_Witness ==
  /\ pc = "loop"
  /\ probe = "empty"
  /\ liveCount = 1
  /\ captureCount = 1
  /\ ret = 0
  /\ delay = refresh

\* C3: a probe that reports no session (empty list, non-200, transport failure)
\* starts no capture and allocates no path; the controller sleeps exactly the
\* refresh interval and probes again, and the process keeps running.
C3_OfflineNeverRecords ==
  [][/\ (pc = "loop" /\ probe' \in {"empty", "http_error", "transport"}) =>
          /\ pc' = "offline"
          /\ stream_data' = NoStream
          /\ active' = 0
          /\ captureCount' = captureCount
          /\ file_path' = file_path
          /\ uq_num' = uq_num
          /\ handed' = handed
          /\ exit_code' = -1
     /\ pc = "offline" =>
          /\ pc' = "loop"
          /\ delay' = refresh
          /\ active' = 0
          /\ captureCount' = captureCount
          /\ file_path' = file_path
          /\ uq_num' = uq_num
          /\ handed' = handed
          /\ exit_code' = -1]_vars

C3_Witness ==
  /\ pc = "loop"
  /\ probe = "transport"
  /\ delay = refresh
  /\ captureCount = 0
  /\ handed = <<>>

\* C4: the path handed to the capture subprocess does not exist when the
\* disambiguation loop ends, and it is the unmodified base path whenever the
\* base path does not exist.
C4_CollisionSafe ==
  /\ pc = "start" =>
       /\ file_path \notin files
       /\ BasePath(stream_data) \notin files => file_path = BasePath(stream_data)
  /\ pc = "recording" =>
       /\ handed = file_path
       /\ handed \notin files
       /\ BasePath(stream_data) \notin files => handed = BasePath(stream_data)

C4_Witness ==
  /\ pc = "recording"
  /\ uq_num = 2
  /\ BasePath(stream_data) \in files
  /\ Cardinality(files) >= 2

\* C5: when the base path stem.ts exists, the allocated path is stem (n).ts
\* for the smallest n >= 1 whose path does not exist, also for a stem that
\* itself ends in " (k)"; no second generated marker is ever carried.
C5_SuffixReplaced ==
  (pc \in {"start", "recording"} /\ BasePath(stream_data) \in files) =>
    LET base == BasePath(stream_data)
        stem == SubSeq(base, 1, Len(base) - 3)
        Cand(n) == stem \o <<" ", "(">> \o ToStr(n) \o <<")", ".", "t", "s">>
    IN /\ uq_num >= 1
       /\ file_path = Cand(uq_num)
       /\ file_path \notin files
       /\ \A m \in 1..(uq_num - 1) : Cand(m) \in files

C5_Witness ==
  /\ pc = "recording"
  /\ stream_data.title = <<"a", " ", "(", "1", ")">>
  /\ uq_num = 2
  /\ handed = <<".", "/", "u", "/", "[", "u", "]", "1", "_", "a", " ", "(", "1", ")",
                " ", "(", "2", ")", ".", "t", "s">>

\* C6: a failed startup check ends the process with status 1 before any probe
\* or capture, and the loop is entered only after all three checks succeeded.
C6_FatalStartupGating ==
  /\ (\E c \in Checks : startup[c] = "failed") =>
       /\ pc = "exited"
       /\ exit_code = 1
       /\ probe = "none"
       /\ liveCount = 0
       /\ captureCount = 0
       /\ active = 0
       /\ Cardinality({c \in Checks : startup[c] = "failed"}) = 1
  /\ (pc \in LoopPcs \/ probe # "none" \/ captureCount > 0) =>
       \A c \in Checks : startup[c] = "ok"
  /\ startup["user"] # "pending" => startup["token"] = "ok"
  /\ startup["token"] # "pending" => startup["streamlink"] = "ok"

C6_Witness ==
  /\ pc = "exited"
  /\ exit_code = 1
  /\ startup["user"] = "failed"

\* C7: a capture that exits non-zero is followed by a 30 second sleep and then
\* the refresh sleep (30 + refresh before the next probe), a clean exit by the
\* refresh sleep alone; the process keeps running in both cases.
C7_FailureBacksOff ==
  [][/\ pc = "recording" =>
          /\ pc' = IF ret' # 0 THEN "backoff" ELSE "done"
          /\ delay' = 0
          /\ exit_code' = -1
     /\ pc = "backoff" =>
          /\ pc' = "done"
          /\ delay' = 30
          /\ exit_code' = -1
     /\ pc = "done" =>
          /\ pc' = "loop"
          /\ delay' = IF ret # 0 THEN 30 + refresh ELSE refresh
          /\ exit_code' = -1]_vars

C7_Witness ==
  /\ pc = "loop"
  /\ probe = "live"
  /\ ret # 0
  /\ delay = 30 + refresh

\* C8: at most one capture subprocess is active; while one is active the
\* controller is in Recording and sends no probe, allocates no path and starts
\* no capture, and its next step is the exit of that capture.
C8_OneCaptureAtATime ==
  [][/\ active \in {0, 1}
     /\ active' \in {0, 1}
     /\ (active = 1) <=> (pc = "recording")
     /\ active = 1 =>
          /\ active' = 0
          /\ probe' = probe
          /\ stream_data' = stream_data
          /\ liveCount' = liveCount
          /\ captureCount' = captureCount
          /\ file_path' = file_path
          /\ uq_num' = uq_num
          /\ handed' = handed]_vars

C8_Witness ==
  /\ pc = "recording"
  /\ active = 1
  /\ captureCount = 2

\* C9: once loop() is entered the controller sends a status probe again and
\* again, whatever the probe and capture outcomes.
C9_NoTerminalState ==
  (<>(pc \in LoopPcs)) => ([]<><<CheckStreaming>>_vars)

C9_Witness ==
  /\ pc = "loop"
  /\ probe = "live"
  /\ ret # 0
  /\ captureCount = MaxCount

\* C10: run() replaces an interval below 5 by 5 and keeps any other interval,
\* so every sleep between probes lasts at least 5 seconds.
C10_RefreshFloor ==
  pc \in LoopPcs =>
    /\ refresh >= 5
    /\ configured # <<>> =>
         refresh = IF configured[1] < 5 THEN 5 ELSE configured[1]
    /\ configured = <<>> => refresh = 5
    /\ (pc = "loop" /\ probe # "none") => delay >= 5

C10_Witness ==
  /\ pc = "loop"
  /\ configured = <<2>>
  /\ refresh = 5
  /\ delay = 5

\* C11 (as stated): no output path is handed to the capture subprocess twice.
C11_PathsNotReused ==
  pc = "recording" => handed \notin handedBefore

\* C11 (amended): a path is handed to the capture subprocess again only when no
\* file exists at it, that is when every earlier capture given that path exited
\* without creating its file.
C11_ReusedOnlyIfAbsent ==
  (pc = "recording" /\ handed \in handedBefore) =>
    /\ handed \notin files
    /\ handed \notin written

C11_Witness ==
  /\ pc = "recording"
  /\ handed \in handedBefore
  /\ ret # 0
  /\ captureCount = 2

\* C12: the disambiguation loop makes at most |existing files| + 1 existence
\* checks and then a capture is started.
C12_AllocatorTerminates ==
  /\ [](/\ pc = "alloc" => checks <= Cardinality(files)
        /\ pc = "start" => checks <= Cardinality(files) + 1)
  /\ (pc = "alloc") ~> (pc = "recording")

C12_Witness ==
  /\ pc = "recording"
  /\ checks = Cardinality(files) + 1
  /\ checks >= 3

\* C17: no capture is started with the path of a file written by an earlier
\* capture of this run, also when the same session is detected again.
C17_NoOverwrite ==
  /\ pc = "start" => file_path \notin written
  /\ pc = "recording" => handed \notin written

C17_Witness ==
  /\ pc = "recording"
  /\ BasePath(stream_data) \in written
  /\ uq_num >= 1

\* C13: when check_oauth_token calls get_oauth_token and the acquisition fails
\* (non-200 status or transport failure) token and expiry stay as they were and
\* the call returns normally; when it succeeds both are overwritten; with a
\* fresh token nothing is requested.
C13_RefreshFailureSwallowed ==
  [][pc = "check_token" =>
       IF now + 3600 > oauth_token_expires
         THEN /\ token_resp'.kind # "none"
              /\ (\/ token_resp'.kind = "transport"
                  \/ token_resp'.kind = "response" /\ token_resp'.status # 200) =>
                   /\ oauth_token' = oauth_token
                   /\ oauth_token_expires' = oauth_token_expires
                   /\ pc' = "token_checked"
                   /\ exit_code' = -1
              /\ (token_resp'.kind = "response" /\ token_resp'.status = 200) =>
                   /\ oauth_token' = <<"Bearer", "t1">>
                   /\ oauth_token_expires' = now + token_resp'.expires_in
                   /\ pc' = "token_checked"
                   /\ exit_code' = -1
         ELSE /\ UNCHANGED <<oauth_token, oauth_token_expires, token_resp>>
              /\ pc' = "token_checked"]_vars

C13_Witness ==
  /\ pc = "token_checked"
  /\ token_resp.kind = "transport"
  /\ oauth_token = <<"Bearer", "t0">>
  /\ now + 3600 > oauth_token_expires
  /\ lastAcquire = now

\* the characters of s outside the set F, in their order
RECURSIVE KeepOutside(_, _)
KeepOutside(s, F) ==
  IF s = <<>> THEN <<>>
  ELSE (IF Head(s) \in F THEN <<>> ELSE <<Head(s)>>) \o KeepOutside(Tail(s), F)

\* C14: escape_filename(s) holds none of / \ ? % * : | " < > . newline, keeps
\* every other character of s in order, and escaping it again changes nothing.
C14_Sanitizer ==
  pc = "alloc" =>
    LET F == {"/", "\\", "?", "%", "*", ":", "|", "\"", "<", ">", ".", "\n"}
    IN /\ \A i \in 1..Len(escaped_title) : escaped_title[i] \notin F
       /\ escaped_title = KeepOutside(stream_data.title, F)
       /\ escape_filename(escaped_title) = escaped_title

C14_Witness ==
  /\ pc = "alloc"
  /\ stream_data.title = <<"\\", "a", ".">>
  /\ escaped_title = <<"a">>

\* C15: check_streaming returns a session exactly when the response has status
\* 200 and a non-empty list, and the session is the first entry of the list.
C15_ProbeClassification ==
  pc \in {"offline", "online"} =>
    LET live == /\ last_resp.kind = "response"
                /\ last_resp.status = 200
                /\ Len(last_resp.data) > 0
    IN /\ last_resp.kind \in {"transport", "response"}
       /\ (stream_data # NoStream) <=> live
       /\ (pc = "online") <=> live
       /\ live => stream_data = Head(last_resp.data)

C15_Witness ==
  /\ pc = "online"
  /\ Len(last_resp.data) = 2
  /\ last_resp.data[1] # last_resp.data[2]
  /\ stream_data = last_resp.data[1]

\* C16: no step changes the channel login, the quality or the output directory,
\* no step of the loop changes the refresh interval, and every capture is
\* invoked with the configured channel and quality.
C16_ConfigurationFrozen ==
  [][/\ config' = config
     /\ pc \in LoopPcs => refresh' = refresh
     /\ pc = "start" =>
          /\ invoked'.username = config.username
          /\ invoked'.quality = config.quality]_vars

C16_Witness ==
  /\ pc = "recording"
  /\ captureCount = 2
  /\ config.quality = "720p"
  /\ invoked = [username |-> <<"u">>, quality |-> "720p"]

\* C18: the user lookup and every status probe are sent with a token obtained
\* by a successful acquisition, never with the initial empty one, and startup
\* runs the capture-tool check, the token acquisition and the user lookup in
\* that order.
C18_NoRequestWithoutToken ==
  [][/\ pc \in {"check_user", "loop"} =>
          /\ oauth_token # <<>>
          /\ startup["token"] = "ok"
          /\ token_resp.kind = "response" /\ token_resp.status = 200
     /\ pc = "check_streamlink" =>
          /\ startup = [c \in Checks |-> "pending"]
          /\ pc' \in {"get_token", "exited"}
     /\ pc = "get_token" =>
          /\ startup["streamlink"] = "ok" /\ startup["user"] = "pending"
          /\ pc' \in {"check_user", "exited"}
     /\ pc = "check_user" =>
          /\ startup["streamlink"] = "ok"
          /\ pc' \in {"constructed", "exited"}]_vars

C18_Witness ==
  /\ pc = "offline"
  /\ probe = "empty"
  /\ oauth_token = <<"Bearer", "t1">>
  /\ startup["token"] = "ok"
  /\ startup["user"] = "ok"
====
